---- MODULE Spec2Model ----
(***************************************************************************)
(* Model of the request layer of isminet: BaseAPIClient and the with_retry *)
(* decorator of src/isminet/clients/base.py.  One client instance is used  *)
(* by one synchronous caller, which issues requests, closes the client and *)
(* enters and leaves `with client:` blocks.  The transport (the requests   *)
(* session) is the environment: it raises transport exceptions or answers  *)
(* with a response.  UnifiClient (src/isminet/clients/unifi.py) adds the   *)
(* list and by-MAC methods on top of get.  The validation of the Client,   *)
(* WifiStats and PortStats models (src/isminet/models/devices.py) is       *)
(* modelled field by field, in declaration order, as pydantic runs it.     *)
(***************************************************************************)
EXTENDS Integers, Sequences, FiniteSets, TLC

\* ---------------------------------------------------------------- bounds
\* largest number N of leading transport failures of one request
MaxFail == 4
\* largest number of elements of a response's data array
MaxData == 2

\* largest timestamp given to a Client
MaxTs == 3
\* largest WiFi channel number given to a WifiStats
MaxChannel == 234
\* largest port number and longest port list given to a VLANConfiguration
MaxPort == 3
MaxPortLen == 2
\* longest list of MAC addresses given to a list validator
MaxMacs == 2

\* ------------------------------------------------------ program constants
\* with_retry(max_retries: int = 3, delay: float = 1.0)
max_retries == 3
delay == 1

Methods == {"GET", "POST", "PUT", "DELETE"}

\* response_model arguments: none, a model whose fields are all optional,
\* a model with required fields (TestModel of the tests: id, name)
ResponseModels == {"none", "AllOptional", "HasRequired"}

\* exceptions the transport raises from session.request
TransportErrors == {"ConnectionError", "Timeout", "SSLError"}

\* ------------------------------------------------------ exception classes
\* base class of every exception class that occurs (requests.exceptions,
\* pydantic, builtins and the API errors of the client)
ParentClass(cls) ==
    CASE cls = "SSLError" -> "ConnectionError"
      [] cls = "ConnectionError" -> "RequestException"
      [] cls = "Timeout" -> "RequestException"
      [] cls = "RequestException" -> "Exception"
      [] cls = "HTTPError" -> "RequestException"
      [] cls = "LegacyAPIError" -> "Exception"
      [] cls = "AuthenticationError" -> "APIError"
      [] cls = "PermissionError" -> "APIError"
      [] cls = "NotFoundError" -> "APIError"
      [] cls = "ResponseValidationError" -> "APIError"
      [] cls = "APIError" -> "Exception"
      [] cls = "ValidationError" -> "ValueError"
      [] cls = "ValueError" -> "Exception"
      [] cls = "AttributeError" -> "Exception"
      [] cls = "TypeError" -> "Exception"
      [] cls = "RuntimeError" -> "Exception"
      [] OTHER -> "BaseException"

RECURSIVE IsInstance(_, _)
\* isinstance(e, base), as an except clause tests it
IsInstance(cls, base) ==
    IF cls = base THEN TRUE
    ELSE IF cls = "BaseException" THEN FALSE
    ELSE IsInstance(ParentClass(cls), base)

NoExc == [cls |-> "none", msg |-> <<>>]
Exc(cls, msg) == [cls |-> cls, msg |-> msg]

\* a message is a sequence of text pieces; s occurs in it
Contains(msg, s) == \E i \in 1..Len(msg) : msg[i] = s

\* ------------------------------------------------------------- responses
NoField == "<absent>"

\* elements of a data array: id tells them apart, valid says whether the
\* element conforms to the response_model of the call
Elements == [id : 1..2, valid : BOOLEAN]

SeqsUpTo(S, n) == UNION {[1..k -> S] : k \in 0..n}

Body(fmt, message, metaMsg, text, dataKind, items) ==
    [fmt |-> fmt, message |-> message, metaMsg |-> metaMsg, text |-> text,
     dataKind |-> dataKind, items |-> items]

\* bodies of failing responses: JSON objects with and without the
\* conventional message fields, a JSON array, plain text, nothing
ErrorBodies ==
    {Body("object", m, mm, "raw json", "absent", <<>>) :
        m \in {NoField, "top message"}, mm \in {NoField, "meta message"}}
    \cup {Body("array", NoField, NoField, "raw json", "absent", <<>>),
          Body("text", NoField, NoField, "plain text", "absent", <<>>),
          Body("empty", NoField, NoField, "", "absent", <<>>)}

\* bodies of successful responses: envelopes whose data is absent, an
\* array or an object; a top-level array; a body that is not JSON
SuccessBodies ==
    {Body("object", NoField, NoField, "raw json", "list", s) :
        s \in SeqsUpTo(Elements, MaxData)}
    \cup {Body("object", NoField, NoField, "raw json", "object", s) :
        s \in SeqsUpTo(Elements, 1)}
    \cup {Body("object", NoField, NoField, "raw json", "absent", <<>>),
          Body("array", NoField, NoField, "raw json", "absent", <<>>),
          Body("text", NoField, NoField, "plain text", "absent", <<>>)}

ErrorStatuses == {401, 403, 404, 500, 502, 503}

Responses ==
    {[status |-> 200, body |-> b] : b \in SuccessBodies}
    \cup {[status |-> s, body |-> b] : s \in ErrorStatuses, b \in ErrorBodies}

\* Response.ok
Ok(resp) == resp.status < 400

NoResponse == [status |-> 0, body |-> Body("empty", NoField, NoField, "", "absent", <<>>)]

\* ------------------------------------------------------------- outcomes
\* what a call returns or raises
Return(isList, items, raw) ==
    [tag |-> "return", exc |-> NoExc, isList |-> isList, items |-> items,
     raw |-> raw]
Raise(e) ==
    [tag |-> "raise", exc |-> e, isList |-> FALSE, items |-> <<>>,
     raw |-> FALSE]
NoOutcome ==
    [tag |-> "none", exc |-> NoExc, isList |-> FALSE, items |-> <<>>,
     raw |-> FALSE]

\* a model instance: which fields it was built from
Instance(src, id) == [src |-> src, id |-> id]

\* ------------------------------------------------ _handle_error_response
\* the exception leaving _handle_error_response(response)
HandleErrorResponse(resp) ==
    LET b == resp.body
        \* try: error_data = response.json(); error_data.get(...); meta.msg
        parsed == b.fmt \in {"object", "array"}
        error_message ==
            IF ~parsed
            THEN (IF b.text # "" THEN b.text ELSE "Unknown error")
            ELSE IF b.metaMsg # NoField THEN b.metaMsg
            ELSE IF b.message # NoField THEN b.message
            ELSE "Unknown error"
    IN  IF b.fmt = "array"
        THEN \* list.get: AttributeError, not caught by (ValueError, KeyError)
             Exc("AttributeError", <<"'list' object has no attribute 'get'">>)
        ELSE IF resp.status = 401
        THEN Exc("AuthenticationError", <<"Authentication failed: ", error_message>>)
        ELSE IF resp.status = 403
        THEN Exc("PermissionError", <<"Permission error: ", error_message>>)
        ELSE IF resp.status = 404
        THEN Exc("NotFoundError", <<"Resource not found: ", error_message>>)
        ELSE Exc("APIError", <<"HTTP ", ToString(resp.status), ": ", error_message>>)

\* ------------------------------------------------------ response_model(...)
\* response_model(**element): an instance, or pydantic's ValidationError
Construct(elem) ==
    IF elem.valid THEN Return(FALSE, <<Instance("data", elem.id)>>, FALSE)
    ELSE Raise(Exc("ValidationError", <<"validation error for element ", ToString(elem.id)>>))

\* response_model(**fields) where fields holds none of the model's fields
\* (no arguments, or the envelope's meta/data keys, which extra="ignore"
\* drops): the default instance, unless the model has required fields
ConstructWithout(model, src) ==
    IF model = "HasRequired"
    THEN Raise(Exc("ValidationError", <<"field required">>))
    ELSE Return(FALSE, <<Instance(src, 0)>>, FALSE)

\* lines 256-267 of _request: parse the body and build the result
ParseResponse(model, resp) ==
    LET b == resp.body IN
    IF b.fmt \in {"text", "empty"}
    THEN Raise(Exc("ValueError", <<"Expecting value">>))
    ELSE IF model = "none"
    THEN Return(b.fmt = "array", <<>>, TRUE)
    ELSE IF b.fmt = "array"
    THEN \* "data" in [...] is False; response_model(**list) is a TypeError
         Raise(Exc("TypeError", <<"argument after ** must be a mapping, not list">>))
    ELSE IF b.dataKind = "list" /\ b.items # <<>>
    THEN Construct(b.items[1])
    ELSE IF b.dataKind # "absent" /\ b.items = <<>>
    THEN ConstructWithout(model, "default")
    ELSE ConstructWithout(model, "envelope")

\* the except clauses of _request, lines 268-277
RequestExcept(e) ==
    IF IsInstance(e.cls, "ConnectionError") \/ IsInstance(e.cls, "Timeout")
    THEN e
    ELSE IF IsInstance(e.cls, "ValidationError")
    THEN Exc("ResponseValidationError", <<"Response validation failed: ">> \o e.msg)
    ELSE IF IsInstance(e.cls, "AuthenticationError")
            \/ IsInstance(e.cls, "PermissionError")
            \/ IsInstance(e.cls, "NotFoundError")
    THEN e
    ELSE Exc("APIError", <<"Unexpected error: ">> \o e.msg)

\* what the transport does on one call of session.request
TransportRaise(cls, text) == [raises |-> TRUE, cls |-> cls, text |-> text, resp |-> NoResponse]
TransportAnswer(resp) == [raises |-> FALSE, cls |-> "none", text |-> "", resp |-> resp]
NoCall == [raises |-> FALSE, cls |-> "nocall", text |-> "", resp |-> NoResponse]

\* _request(method, endpoint, response_model): the outcome of one attempt
\* on session sess when the transport behaves as t
Request(sess, model, t) ==
    LET body ==
            IF sess = "none"
            THEN \* self.session is None: None.request
                 Raise(Exc("AttributeError", <<"'NoneType' object has no attribute 'request'">>))
            ELSE IF t.raises
            THEN Raise(Exc(t.cls, <<t.text>>))
            ELSE IF ~Ok(t.resp)
            THEN Raise(HandleErrorResponse(t.resp))
            ELSE ParseResponse(model, t.resp)
    IN  IF body.tag = "raise" THEN Raise(RequestExcept(body.exc)) ELSE body

\* ------------------------------------------------------------ with_retry
\* a loop that runs one iteration too few
InLoopShort(attempt) == attempt < max_retries - 1

\* for attempt in range(max_retries)
InLoop(attempt) == attempt < max_retries

\* an except clause that catches every exception
RetryableAny(e) == IsInstance(e.cls, "Exception")

\* except (ConnectionError, Timeout) as e
Retryable(e) == IsInstance(e.cls, "ConnectionError") \/ IsInstance(e.cls, "Timeout")

\* last_error keeps the first error
NextLastErrorFirst(last, e) == IF last = NoExc THEN e ELSE last

\* last_error = e
NextLastError(last, e) == e

\* if attempt == max_retries - 1: break
IsLastAttempt(attempt) == attempt = max_retries - 1

\* a backoff that does not grow: time.sleep(delay)
SleepTimeConstant(attempt) == delay

\* time.sleep(delay * (attempt + 1))
SleepTime(attempt) == delay * (attempt + 1)

\* raise APIError(f"Request failed after {max_retries} retries: {str(last_error)}")
Exhausted(last) ==
    Exc("APIError", <<"Request failed after ", ToString(max_retries), " retries: ">> \o last.msg)

\* ------------------------------------------------------- close / __exit__
\* a close() that marks the session closed whether or not there is one
CloseSessionUnguarded(sess) == "closed"

\* close(): if self.session: self.session.close()
CloseSession(sess) == IF sess # "none" THEN "closed" ELSE sess

\* an exit that closes the session only when the block ended normally
ExitSessionNormalOnly(sess, exc) == IF sess # "none" /\ exc = NoExc THEN "none" ELSE sess

\* __exit__(exc_type, ...): if self.session: close it and set it to None;
\* the result None lets the exception of the block propagate
ExitSession(sess, exc) == IF sess # "none" THEN "none" ELSE sess
ExitPropagates(exc) == exc

\* ------------------------------------------- the client of src/clients
\* with_retry(max_retries: int = 3, backoff_factor: float = 0.5), the
\* factor in milliseconds
legacy_max_retries == 3
backoff_factor == 500

\* the responses given to the client of src/clients: a successful one has
\* a JSON body
LegacyResponses == {r \in Responses : Ok(r) => r.body.fmt \in {"object", "array"}}

\* the message of the APIError raised for a failing response: meta.msg of
\* a JSON body that has it, else the text of the HTTPError
LegacyErrorMessage(resp) ==
    IF resp.body.fmt = "object" /\ resp.body.metaMsg # NoField
    THEN <<resp.body.metaMsg>>
    ELSE <<"API request failed: ", "HTTP error ", ToString(resp.status)>>

\* _request of src/clients/base.py: every RequestException, of the
\* transport or of raise_for_status, leaves it as an APIError of that
\* module (LegacyAPIError here), which is not a RequestException
LegacyRequest(t) ==
    IF t.raises
    THEN Raise(Exc("LegacyAPIError", <<"API request failed: ", t.text>>))
    ELSE IF ~Ok(t.resp)
    THEN Raise(Exc("LegacyAPIError", LegacyErrorMessage(t.resp)))
    ELSE Return(t.resp.body.fmt = "array", <<>>, TRUE)

\* for attempt in range(max_retries + 1)
LegacyInLoop(attempt) == attempt < legacy_max_retries + 1

\* except RequestException as e
LegacyRetryable(e) == IsInstance(e.cls, "RequestException")

\* if attempt == max_retries: break
LegacyIsLastAttempt(attempt) == attempt = legacy_max_retries

\* delay = backoff_factor * (2 ** attempt)
LegacySleepTime(attempt) == backoff_factor * (2 ^ attempt)

\* ------------------------------------------------------------ UnifiClient
RECURSIVE ModelEach(_)
\* [model(**item) for item in items]: the instances in order, or the
\* ValidationError of the first item that does not validate
ModelEach(items) ==
    IF items = <<>> THEN Return(TRUE, <<>>, FALSE)
    ELSE LET first == Construct(items[1])
             rest == ModelEach(Tail(items))
         IN  IF first.tag = "raise" THEN first
             ELSE IF rest.tag = "raise" THEN rest
             ELSE Return(TRUE, first.items \o rest.items, FALSE)

\* a list response that models the first element only
GetListResponseFirstOnly(b) ==
    IF b.fmt # "object" \/ b.dataKind # "list"
    THEN Return(TRUE, <<>>, FALSE)
    ELSE ModelEach(IF b.items = <<>> THEN <<>> ELSE <<b.items[1]>>)

\* _get_list_response(response_data, model) on the parsed body b
GetListResponse(b) ==
    IF b.fmt # "object" \/ b.dataKind # "list"
    THEN \* "data" not in response_data, or data is not a list
         Return(TRUE, <<>>, FALSE)
    ELSE ModelEach(b.items)

\* what the method of the client that made request r returns or raises
\* when self.get(...) ended with out on response resp:
\* get_devices & co. pass the raw envelope to _get_list_response,
\* get_device & co. return the result of get as it is
ApiResult(r, out, resp) ==
    IF r.api = "list" /\ out.tag = "return" THEN GetListResponse(resp.body)
    ELSE out

\* ------------------------------------------------------ model validation
\* a field of the input of a model: supplied with value v, or not supplied
Some(v) == [set |-> TRUE, v |-> v]
None == [set |-> FALSE, v |-> 0]
NoneStr == [set |-> FALSE, v |-> ""]
NoneSeq == [set |-> FALSE, v |-> <<>>]
NoneBool == [set |-> FALSE, v |-> FALSE]

\* Client with first_seen declared before last_seen
FieldOrderFirstSeenFirst(model) ==
    CASE model = "Client" -> <<"first_seen", "last_seen">>
      [] model = "WifiStats" -> <<"channel", "radio", "signal", "noise", "channel_width">>
      [] model = "PortStats" -> <<"port_idx", "sfp_rxpower", "sfp_txpower">>
      [] model = "DHCPConfiguration" -> <<"mode", "enabled", "start", "end">>
      [] model = "VLANConfiguration" -> <<"vlan_id", "tagged_ports", "untagged_ports">>
      [] model = "SystemHealth" -> <<"last_check", "next_check">>

\* the modelled fields of each model in the order of their declaration,
\* which is the order pydantic validates them in; the other fields of
\* the models are taken to be supplied and valid
FieldOrder(model) ==
    CASE model = "Client" -> <<"last_seen", "first_seen">>
      [] model = "WifiStats" -> <<"channel", "radio", "signal", "noise", "channel_width">>
      [] model = "PortStats" -> <<"port_idx", "sfp_rxpower", "sfp_txpower">>
      [] model = "DHCPConfiguration" -> <<"mode", "enabled", "start", "end">>
      [] model = "VLANConfiguration" -> <<"vlan_id", "tagged_ports", "untagged_ports">>
      [] model = "SystemHealth" -> <<"last_check", "next_check">>

\* fields declared Optional with default None
OptionalFields ==
    {"channel_width", "sfp_rxpower", "sfp_txpower", "start", "end", "tagged_ports",
     "untagged_ports", "last_check", "next_check"}

\* info.data before any field is validated
EmptyData(model) ==
    CASE model = "Client" -> [last_seen |-> None, first_seen |-> None]
      [] model = "WifiStats" ->
            [channel |-> None, radio |-> NoneStr, signal |-> None, noise |-> None,
             channel_width |-> None]
      [] model = "PortStats" -> [port_idx |-> None, sfp_rxpower |-> None, sfp_txpower |-> None]
      [] model = "DHCPConfiguration" ->
            [mode |-> NoneStr, enabled |-> NoneBool, start |-> NoneStr, end |-> NoneStr]
      [] model = "VLANConfiguration" ->
            [vlan_id |-> None, tagged_ports |-> NoneSeq, untagged_ports |-> NoneSeq]
      [] model = "SystemHealth" -> [last_check |-> None, next_check |-> None]

\* RadioType
RadioTypes == {"ng", "na", "6e"}

\* Client.validate_first_seen(v, info): passes unless last_seen is in
\* info.data and v is greater
ValidateFirstSeen(v, data) == ~(data.last_seen.set /\ v > data.last_seen.v)

\* WifiStats.validate_dbm
ValidateDbm(v) == -100 <= v /\ v <= 0

\* WifiStats.validate_channel(v, info): radio = info.data.get("radio")
ValidateChannel(v, data) ==
    IF ~data.radio.set THEN TRUE
    ELSE IF data.radio.v = "na" THEN 36 <= v /\ v <= 165
    ELSE IF data.radio.v = "ng" THEN 1 <= v /\ v <= 14
    ELSE IF data.radio.v = "6e" THEN 1 <= v /\ v <= 233
    ELSE TRUE

\* a model validator that forgets the 2.4 GHz band
ValidateChannelRadioNoNG(data) ==
    IF data.radio.v = "na" /\ ~(36 <= data.channel.v /\ data.channel.v <= 165) THEN FALSE
    ELSE IF data.radio.v = "6e" /\ ~(1 <= data.channel.v /\ data.channel.v <= 233) THEN FALSE
    ELSE TRUE

\* WifiStats.validate_channel_radio (model validator, mode="after")
ValidateChannelRadio(data) ==
    IF data.radio.v = "na" /\ ~(36 <= data.channel.v /\ data.channel.v <= 165) THEN FALSE
    ELSE IF data.radio.v = "ng" /\ ~(1 <= data.channel.v /\ data.channel.v <= 14) THEN FALSE
    ELSE IF data.radio.v = "6e" /\ ~(1 <= data.channel.v /\ data.channel.v <= 233) THEN FALSE
    ELSE TRUE

\* WifiStats.validate_channel_width, for a width that is not None
ValidateChannelWidth(v) == v \in {20, 40, 80, 160}

\* DHCPMode
DHCPModes == {"disabled", "server", "relay"}

\* the address strings given to the models, and those among them that
\* IPv4Address accepts
IpStrings == {"192.168.1.100", "192.168.1.200", "invalid.ip", ""}
ValidateIp(v) == v \in {"192.168.1.100", "192.168.1.200"}

\* the elements of a list as a set: set(ports)
SetOf(seq) == {seq[i] : i \in 1..Len(seq)}

\* truth value of an optional string and of an optional list: not None
\* and not empty
TruthyStr(x) == x.set /\ x.v # ""
TruthySeq(x) == x.set /\ x.v # <<>>

\* set(self.tagged_ports) & set(self.untagged_ports)
CommonPorts(data) == SetOf(data.tagged_ports.v) \cap SetOf(data.untagged_ports.v)

\* a check that compares the lists position by position
ValidatePortsPairwise(data) ==
    ~(/\ TruthySeq(data.tagged_ports) /\ TruthySeq(data.untagged_ports)
      /\ \E i \in 1..Len(data.tagged_ports.v) :
             i <= Len(data.untagged_ports.v)
             /\ data.tagged_ports.v[i] = data.untagged_ports.v[i])

\* VLANConfiguration.validate_ports (model validator, mode="after")
ValidatePorts(data) ==
    ~(/\ TruthySeq(data.tagged_ports) /\ TruthySeq(data.untagged_ports)
      /\ CommonPorts(data) # {})

\* a check that is content with one end of the range
ValidateDhcpRangeAny(data) ==
    ~(/\ data.mode.v = "server" /\ data.enabled.v
      /\ ~(TruthyStr(data.start) \/ TruthyStr(data.end)))

\* DHCPConfiguration.validate_dhcp_range (model validator, mode="after")
ValidateDhcpRange(data) ==
    ~(/\ data.mode.v = "server" /\ data.enabled.v
      /\ ~(TruthyStr(data.start) /\ TruthyStr(data.end)))

\* a check that lets equal timestamps pass
ValidateTimestampsNotStrict(data) ==
    ~(/\ data.last_check.set /\ data.next_check.set
      /\ data.last_check.v > data.next_check.v)

\* SystemHealth.validate_timestamps (model validator, mode="after")
ValidateTimestamps(data) ==
    ~(/\ data.last_check.set /\ data.next_check.set
      /\ data.last_check.v >= data.next_check.v)

\* the Field constraints and the field validator of field f of model,
\* applied to the supplied value v with the fields validated so far
FieldOk(model, f, v, data) ==
    CASE model = "Client" /\ f = "last_seen" -> TRUE
      [] model = "Client" /\ f = "first_seen" -> ValidateFirstSeen(v, data)
      [] model = "WifiStats" /\ f = "channel" -> ValidateChannel(v, data)
      [] model = "WifiStats" /\ f = "radio" -> v \in RadioTypes
      [] model = "WifiStats" /\ f \in {"signal", "noise"} -> v <= 0 /\ ValidateDbm(v)
      [] model = "WifiStats" /\ f = "channel_width" -> ValidateChannelWidth(v)
      [] model = "PortStats" /\ f = "port_idx" -> v >= 1
      [] model = "PortStats" /\ f \in {"sfp_rxpower", "sfp_txpower"} -> v <= 0
      [] model = "DHCPConfiguration" /\ f = "mode" -> v \in DHCPModes
      [] model = "DHCPConfiguration" /\ f = "enabled" -> TRUE
      [] model = "DHCPConfiguration" /\ f \in {"start", "end"} -> ValidateIp(v)
      [] model = "VLANConfiguration" /\ f = "vlan_id" -> 1 <= v /\ v <= 4094
      [] model = "VLANConfiguration" /\ f \in {"tagged_ports", "untagged_ports"} -> TRUE
      [] model = "SystemHealth" -> TRUE

\* the validators that run once every field has passed
ModelValidator(model, data) ==
    CASE model = "WifiStats" -> ValidateChannelRadio(data)
      [] model = "DHCPConfiguration" -> ValidateDhcpRange(data)
      [] model = "VLANConfiguration" -> ValidatePorts(data)
      [] model = "SystemHealth" -> ValidateTimestamps(data)
      [] OTHER -> TRUE

\* the message of the ValueError of the model validator that fails
ModelValidatorMessage(model, data) ==
    CASE model = "WifiStats" ->
            <<"Invalid channel ", data.channel.v, " for radio type ", data.radio.v>>
      [] model = "DHCPConfiguration" ->
            <<"DHCP range start and end must be set when server mode is enabled">>
      [] model = "VLANConfiguration" ->
            <<"Ports ", CommonPorts(data), " cannot be both tagged and untagged">>
      [] model = "SystemHealth" -> <<"next_check must be after last_check">>
      [] OTHER -> <<>>

RECURSIVE ValidateFields(_, _, _, _)
\* pydantic's field loop: each field in order; a required field that is
\* missing or a value that fails is an error, a value that passes enters
\* info.data, an optional field that is missing keeps its default
ValidateFields(model, order, input, acc) ==
    IF order = <<>> THEN acc
    ELSE LET f == Head(order)
             x == input[f]
             next ==
                 IF ~x.set
                 THEN IF f \in OptionalFields THEN acc
                      ELSE [acc EXCEPT !.errors = @ \cup {f}]
                 ELSE IF FieldOk(model, f, x.v, acc.data)
                 THEN [acc EXCEPT !.data[f] = x]
                 ELSE [acc EXCEPT !.errors = @ \cup {f}]
         IN  ValidateFields(model, Tail(order), input, next)

\* model(**input): the instance's fields, or the fields in error
BuildModel(model, input) ==
    LET r == ValidateFields(model, FieldOrder(model), input,
                            [data |-> EmptyData(model), errors |-> {}])
    IN  IF r.errors # {}
        THEN [ok |-> FALSE, errors |-> r.errors, data |-> r.data, msg |-> <<>>]
        ELSE IF ~ModelValidator(model, r.data)
        THEN [ok |-> FALSE, errors |-> {"__model__"}, data |-> r.data,
              msg |-> ModelValidatorMessage(model, r.data)]
        ELSE [ok |-> TRUE, errors |-> {}, data |-> r.data, msg |-> <<>>]

\* the inputs the models are constructed from
ClientInputs ==
    [last_seen : {None} \cup {Some(t) : t \in -1..MaxTs},
     first_seen : {None} \cup {Some(t) : t \in -1..MaxTs}]
WifiStatsInputs ==
    [channel : {Some(c) : c \in 0..MaxChannel},
     radio : {Some(r) : r \in RadioTypes \cup {"xx"}},
     signal : {Some(d) : d \in {-101, -100, -1, 0, 1}},
     noise : {Some(d) : d \in {-90, 0, 1}},
     channel_width : {None} \cup {Some(w) : w \in {10, 20, 30, 40, 80, 160, 320}}]
PortStatsInputs ==
    [port_idx : {Some(i) : i \in 0..2},
     sfp_rxpower : {None} \cup {Some(d) : d \in {-1, 0, 1}},
     sfp_txpower : {None} \cup {Some(d) : d \in {-1, 0, 1}}]

\* ------------------------------------------------------- MAC addresses
\* a string is the sequence of its characters
HexChars ==
    {"0", "1", "2", "3", "4", "5", "6", "7", "8", "9",
     "a", "b", "c", "d", "e", "f", "A", "B", "C", "D", "E", "F"}

\* str.lower and str.upper on one character
LowerChar(c) ==
    CASE c = "A" -> "a" [] c = "B" -> "b" [] c = "C" -> "c" [] c = "D" -> "d"
      [] c = "E" -> "e" [] c = "F" -> "f" [] c = "G" -> "g" [] OTHER -> c
UpperChar(c) ==
    CASE c = "a" -> "A" [] c = "b" -> "B" [] c = "c" -> "C" [] c = "d" -> "D"
      [] c = "e" -> "E" [] c = "f" -> "F" [] c = "g" -> "G" [] OTHER -> c

\* v.lower(), v.upper()
Lower(str) == [i \in 1..Len(str) |-> LowerChar(str[i])]
Upper(str) == [i \in 1..Len(str) |-> UpperChar(str[i])]

\* MAC_PATTERN.match(v): ^([0-9A-Fa-f]{2}[:-]){5}([0-9A-Fa-f]{2})$ on a
\* string without line ends
MatchMac(str) ==
    /\ Len(str) = 17
    /\ \A i \in 1..17 :
          IF i % 3 = 0 THEN str[i] \in {":", "-"} ELSE str[i] \in HexChars

\* what a validator returns (ok, with the value it returns) or raises
Returns(value) == [ok |-> TRUE, value |-> value]
RaisesError == [ok |-> FALSE, value |-> NoneSeq]

\* validate_mac of validators.py, which Client.validate_mac (mac, gw_mac,
\* sw_mac) repeats
ValidateMac(v) ==
    IF ~v.set THEN Returns(v)
    ELSE IF ~MatchMac(v.v) THEN RaisesError
    ELSE Returns(Some(Lower(v.v)))

\* validate_mac of Device, PortStats and WifiStats
DeviceValidateMac(v) ==
    IF ~MatchMac(v.v) THEN RaisesError ELSE Returns(Some(Lower(v.v)))

\* ValidationMixin.validate_mac of mixins.py: validate_mac(v); return v
MixinValidateMac(v) ==
    IF ~ValidateMac(v).ok THEN RaisesError ELSE Returns(v)

\* validator_func of validate_mac_list, lambda x: bool(MAC_PATTERN.match(x)),
\* returns False for a string that does not match: it raises for no string
MacListValidatorFuncRaises(str) == FALSE

RECURSIVE ListErrors(_, _)
\* the elements that validator_func raises for, in order: errors
ListErrors(list, i) ==
    IF i > Len(list) THEN <<>>
    ELSE (IF MacListValidatorFuncRaises(list[i]) THEN <<list[i]>> ELSE <<>>)
         \o ListErrors(list, i + 1)

\* validate_mac_list of validators.py: validate_list of
\* create_list_validator with transform_func = str.lower
ValidateMacList(v) ==
    IF ~v.set THEN Returns(v)
    ELSE IF ListErrors(v.v, 1) # <<>> THEN RaisesError
    ELSE Returns(Some([i \in 1..Len(v.v) |-> Lower(v.v[i])]))

\* ValidationMixin.validate_mac_list of mixins.py: validate_mac_list(v); return v
MixinValidateMacList(v) ==
    IF ~ValidateMacList(v).ok THEN RaisesError ELSE Returns(v)

\* PortStats.validate_mac_list (port_security_mac_address)
PortStatsValidateMacList(v) ==
    IF ~v.set THEN Returns(v)
    ELSE IF \E i \in 1..Len(v.v) : ~MatchMac(v.v[i]) THEN RaisesError
    ELSE Returns(Some([i \in 1..Len(v.v) |-> Lower(v.v[i])]))

\* NetworkProfile.validate_mac_filter_list
ValidateMacFilterList(v) ==
    IF v.set /\ \E i \in 1..Len(v.v) : ~MatchMac(v.v[i]) THEN RaisesError
    ELSE Returns(v)

\* the fields that hold one MAC address, those of them that are optional,
\* and the fields that hold a list of MAC addresses
MacFields ==
    {"Device.mac", "Client.mac", "Client.gw_mac", "Client.sw_mac", "PortStats.mac",
     "WifiStats.ap_mac", "WifiStats.bssid", "ValidationMixin.mac", "validate_mac"}
OptionalMacFields == {"Client.gw_mac", "Client.sw_mac", "validate_mac"}
MacListFields ==
    {"PortStats.port_security_mac_address", "NetworkProfile.mac_filter_list",
     "ValidationMixin.mac_list", "validate_mac_list"}

\* the field validator of each field
FieldValidator(field, v) ==
    CASE field \in {"Device.mac", "PortStats.mac", "WifiStats.ap_mac", "WifiStats.bssid"} ->
            DeviceValidateMac(v)
      [] field \in {"Client.mac", "Client.gw_mac", "Client.sw_mac", "validate_mac"} ->
            ValidateMac(v)
      [] field = "ValidationMixin.mac" -> MixinValidateMac(v)
      [] field = "PortStats.port_security_mac_address" -> PortStatsValidateMacList(v)
      [] field = "NetworkProfile.mac_filter_list" -> ValidateMacFilterList(v)
      [] field = "ValidationMixin.mac_list" -> MixinValidateMacList(v)
      [] field = "validate_mac_list" -> ValidateMacList(v)

RECURSIVE MacString(_, _, _)
\* n times the two characters of octet, joined by sep
MacString(octet, sep, n) ==
    IF n = 1 THEN octet ELSE octet \o <<sep>> \o MacString(octet, sep, n - 1)

\* the strings given as MAC addresses: six or five octets, in lower,
\* upper and mixed case, with and without a character that is no hex
\* digit, joined by ":", "-" or "."
MacStrings ==
    {MacString(o, sep, n) :
        o \in {<<"a", "b">>, <<"A", "B">>, <<"a", "B">>, <<"0", "1">>, <<"g", "0">>,
               <<"G", "0">>},
        sep \in {":", "-", "."},
        n \in {5, 6}}

\* the strings given as elements of a list of MAC addresses
MacListStrings ==
    {MacString(<<"a", "b">>, ":", 6), MacString(<<"A", "B">>, "-", 6),
     MacString(<<"g", "0">>, ":", 6), MacString(<<"a", "b">>, ":", 5)}

MacFieldInputs ==
    [field : MacFields, value : {Some(m) : m \in MacStrings}]
    \cup [field : OptionalMacFields, value : {NoneSeq}]
MacListFieldInputs ==
    [field : MacListFields,
     value : {NoneSeq} \cup {Some(l) : l \in SeqsUpTo(MacListStrings, MaxMacs)}]

DHCPConfigurationInputs ==
    [mode : {Some(m) : m \in DHCPModes \cup {"bogus"}},
     enabled : {Some(b) : b \in BOOLEAN},
     start : {NoneStr} \cup {Some(a) : a \in IpStrings},
     end : {NoneStr} \cup {Some(a) : a \in IpStrings}]
VLANConfigurationInputs ==
    [vlan_id : {Some(i) : i \in {0, 1, 4094, 4095}},
     tagged_ports : {NoneSeq} \cup {Some(p) : p \in SeqsUpTo(1..MaxPort, MaxPortLen)},
     untagged_ports : {NoneSeq} \cup {Some(p) : p \in SeqsUpTo(1..MaxPort, MaxPortLen)}]
SystemHealthInputs ==
    [last_check : {None} \cup {Some(t) : t \in 0..MaxTs},
     next_check : {None} \cup {Some(t) : t \in 0..MaxTs}]

\* ------------------------------------------------------------------ state
VARIABLES
    session,     \* self.session: "open", "closed" (Session.close() called), "none"
    inWith,      \* the caller is inside a `with client:` block
    pc,          \* "idle", "wrapper" (in the retry loop), "raised" (a request
                 \* raised inside a with block and the block has not handled it)
    req,         \* the request being made or last made
    attempt,     \* loop variable of with_retry.wrapper
    last_error,  \* last_error of with_retry.wrapper
    calls,       \* HTTP calls issued on the session by the current request
    sleeps,      \* time.sleep arguments of the current request, in order
    trace,       \* what the transport did on each call of the current request
    outcome,     \* what the current request returned or raised
    exitRec,     \* the last exit of a with block, until the caller's next operation
    built        \* a model construction: its input and, once done, its result

vars == <<session, inWith, pc, req, attempt, last_error, calls, sleeps, trace,
          outcome, exitRec, built>>

NoReq == [method |-> "none", model |-> "none", failN |-> 0, sess |-> "open",
          api |-> "request", mac |-> 0]
NoBuilt == [model |-> "none"]
NoExit == [left |-> FALSE, raised |-> NoExc, propagated |-> NoExc, session |-> "open"]

\* BaseAPIClient.__init__: self.session = Session()
ClientInit ==
    /\ session = "open"
    /\ inWith = FALSE
    /\ pc = "idle"
    /\ req = NoReq
    /\ attempt = 0
    /\ last_error = NoExc
    /\ calls = 0
    /\ sleeps = <<>>
    /\ trace = <<>>
    /\ outcome = NoOutcome
    /\ exitRec = NoExit

Init ==
    /\ ClientInit
    /\ built = NoBuilt

\* entering with_retry.wrapper with the arguments r
StartRequest(r) ==
    /\ pc = "idle"
    /\ req' = r
    /\ pc' = "wrapper"
    /\ attempt' = 0
    /\ last_error' = NoExc
    /\ calls' = 0
    /\ sleeps' = <<>>
    /\ trace' = <<>>
    /\ outcome' = NoOutcome
    /\ exitRec' = NoExit
    /\ UNCHANGED <<session, inWith, built>>

\* get/post/put/delete -> _request; the transport will fail on exactly its
\* first n calls and then answer
Call(method) ==
    \E model \in ResponseModels, n \in 0..MaxFail :
        StartRequest([method |-> method, model |-> model, failN |-> n,
                      sess |-> session, api |-> "request", mac |-> 0])

\* get_devices, get_clients, get_network_profiles, get_process_info,
\* get_service_status: response = self.get(endpoint)
GetList ==
    \E n \in 0..MaxFail :
        StartRequest([method |-> "GET", model |-> "none", failN |-> n,
                      sess |-> session, api |-> "list", mac |-> 0])

\* get_device(mac), get_client(mac): self.get(endpoint, response_model=Device)
GetByMac ==
    \E n \in 0..MaxFail, mac \in 1..2 :
        StartRequest([method |-> "GET", model |-> "HasRequired", failN |-> n,
                      sess |-> session, api |-> "by_mac", mac |-> mac])

Get == Call("GET")
Post == Call("POST")
Put == Call("PUT")
Delete == Call("DELETE")

\* the request is over with outcome out
Finish(out) ==
    /\ outcome' = out
    /\ pc' = IF out.tag = "raise" /\ inWith THEN "raised" ELSE "idle"

\* one iteration of the loop of with_retry.wrapper (one call of _request),
\* with the statements after the loop when the iteration is the last one
Attempt ==
    /\ pc = "wrapper"
    /\ InLoop(attempt)
    /\ \E t \in (IF session = "none" THEN {NoCall}
                 ELSE IF calls < req.failN
                 THEN {TransportRaise(c, "err" \o ToString(calls + 1)) : c \in TransportErrors}
                 ELSE {TransportAnswer(r) : r \in Responses}) :
          LET out == Request(session, req.model, t) IN
          /\ trace' = IF session = "none" THEN trace ELSE Append(trace, t)
          /\ calls' = IF session = "none" THEN calls ELSE calls + 1
          /\ IF out.tag = "raise" /\ Retryable(out.exc)
             THEN /\ last_error' = NextLastError(last_error, out.exc)
                  /\ IF IsLastAttempt(attempt)
                     THEN \* break; if last_error: raise APIError(...)
                          /\ Finish(Raise(Exhausted(last_error')))
                          /\ UNCHANGED <<attempt, sleeps>>
                     ELSE /\ sleeps' = Append(sleeps, SleepTime(attempt))
                          /\ attempt' = attempt + 1
                          /\ IF InLoop(attempt + 1)
                             THEN UNCHANGED <<pc, outcome>>
                             ELSE \* range exhausted; if last_error: raise
                                  Finish(Raise(Exhausted(last_error')))
             ELSE /\ Finish(ApiResult(req, out, t.resp))
                  /\ UNCHANGED <<last_error, attempt, sleeps>>
    /\ UNCHANGED <<session, inWith, req, exitRec, built>>

\* close()
Close ==
    /\ pc = "idle"
    /\ session' = CloseSession(session)
    /\ exitRec' = NoExit
    /\ UNCHANGED <<inWith, pc, req, attempt, last_error, calls, sleeps, trace, outcome,
                   built>>

\* __enter__
Enter ==
    /\ pc = "idle"
    /\ ~inWith
    /\ inWith' = TRUE
    /\ exitRec' = NoExit
    /\ UNCHANGED <<session, pc, req, attempt, last_error, calls, sleeps, trace, outcome,
                   built>>

\* control leaves the with block with exception e (NoExc: normally)
LeaveWith(e) ==
    /\ session' = ExitSession(session, e)
    /\ inWith' = FALSE
    /\ pc' = "idle"
    /\ exitRec' = [left |-> TRUE, raised |-> e, propagated |-> ExitPropagates(e),
                   session |-> session']
    /\ UNCHANGED <<req, attempt, last_error, calls, sleeps, trace, outcome, built>>

\* the block ends normally
ExitNormal ==
    /\ pc = "idle"
    /\ inWith
    /\ LeaveWith(NoExc)

\* the error of a request leaves the block
ExitOnRequestError ==
    /\ pc = "raised"
    /\ LeaveWith(outcome.exc)

\* other code of the block raises
ExitOnBlockError ==
    /\ pc = "idle"
    /\ inWith
    /\ LeaveWith(Exc("ValueError", <<"raised in the block">>))

\* the block handles the error of a request and goes on
CatchInBlock ==
    /\ pc = "raised"
    /\ pc' = "idle"
    /\ UNCHANGED <<session, inWith, req, attempt, last_error, calls, sleeps, trace,
                   outcome, exitRec, built>>

Next ==
    \/ Get
    \/ Post
    \/ Put
    \/ Delete
    \/ Attempt
    \/ Close
    \/ Enter
    \/ ExitNormal
    \/ ExitOnRequestError
    \/ ExitOnBlockError
    \/ CatchInBlock

Spec == Init /\ [][Next]_vars

\* the methods of UnifiClient on a fresh client
NextUnifi ==
    \/ GetList
    \/ GetByMac
    \/ Attempt

SpecUnifi == Init /\ [][NextUnifi]_vars

\* get/post/put/delete of the client of src/clients -> its _request
LegacyCall(method) ==
    \E n \in 0..MaxFail :
        StartRequest([method |-> method, model |-> "none", failN |-> n,
                      sess |-> session, api |-> "legacy", mac |-> 0])

LegacyGet == LegacyCall("GET")
LegacyPost == LegacyCall("POST")
LegacyPut == LegacyCall("PUT")
LegacyDelete == LegacyCall("DELETE")

\* one iteration of the loop of with_retry.wrapper of src/clients/base.py
\* (one call of _request); an exception that is no RequestException
\* leaves the wrapper at once
LegacyAttempt ==
    /\ pc = "wrapper"
    /\ req.api = "legacy"
    /\ LegacyInLoop(attempt)
    /\ \E t \in (IF calls < req.failN
                 THEN {TransportRaise(c, "err" \o ToString(calls + 1)) : c \in TransportErrors}
                 ELSE {TransportAnswer(r) : r \in LegacyResponses}) :
          LET out == LegacyRequest(t) IN
          /\ trace' = Append(trace, t)
          /\ calls' = calls + 1
          /\ IF out.tag = "raise" /\ LegacyRetryable(out.exc)
             THEN /\ last_error' = out.exc
                  /\ IF LegacyIsLastAttempt(attempt)
                     THEN \* break; raise last_error
                          /\ Finish(Raise(out.exc))
                          /\ UNCHANGED <<attempt, sleeps>>
                     ELSE /\ sleeps' = Append(sleeps, LegacySleepTime(attempt))
                          /\ attempt' = attempt + 1
                          /\ UNCHANGED <<pc, outcome>>
             ELSE /\ Finish(out)
                  /\ UNCHANGED <<last_error, attempt, sleeps>>
    /\ UNCHANGED <<session, inWith, req, exitRec, built>>

NextLegacy ==
    \/ LegacyGet
    \/ LegacyPost
    \/ LegacyPut
    \/ LegacyDelete
    \/ LegacyAttempt

SpecLegacy == Init /\ [][NextLegacy]_vars

\* a model is about to be constructed from some input
Pending(model, input) ==
    [model |-> model, input |-> input, done |-> FALSE,
     result |-> [ok |-> FALSE, errors |-> {}, data |-> EmptyData(model), msg |-> <<>>]]

InitModels ==
    /\ ClientInit
    /\ built \in {Pending("Client", i) : i \in ClientInputs}
                \cup {Pending("WifiStats", i) : i \in WifiStatsInputs}
                \cup {Pending("PortStats", i) : i \in PortStatsInputs}
                \cup {Pending("DHCPConfiguration", i) : i \in DHCPConfigurationInputs}
                \cup {Pending("VLANConfiguration", i) : i \in VLANConfigurationInputs}
                \cup {Pending("SystemHealth", i) : i \in SystemHealthInputs}

\* model(**input)
ConstructModel(model) ==
    /\ built.model = model
    /\ ~built.done
    /\ built' = [built EXCEPT !.done = TRUE, !.result = BuildModel(model, built.input)]
    /\ UNCHANGED <<session, inWith, pc, req, attempt, last_error, calls, sleeps, trace,
                   outcome, exitRec>>

ConstructClient == ConstructModel("Client")
ConstructWifiStats == ConstructModel("WifiStats")
ConstructPortStats == ConstructModel("PortStats")
ConstructDHCPConfiguration == ConstructModel("DHCPConfiguration")
ConstructVLANConfiguration == ConstructModel("VLANConfiguration")
ConstructSystemHealth == ConstructModel("SystemHealth")

NextModels ==
    \/ ConstructClient
    \/ ConstructWifiStats
    \/ ConstructPortStats
    \/ ConstructDHCPConfiguration
    \/ ConstructVLANConfiguration
    \/ ConstructSystemHealth

SpecModels == InitModels /\ [][NextModels]_vars

\* a value is about to be validated as the given field
PendingField(kind, i) ==
    [model |-> kind, field |-> i.field, input |-> i.value, done |-> FALSE,
     stored |-> RaisesError, again |-> RaisesError, upper |-> RaisesError]

InitValidators ==
    /\ ClientInit
    /\ built \in {PendingField("mac", i) : i \in MacFieldInputs}
                \cup {PendingField("mac_list", i) : i \in MacListFieldInputs}

\* the upper-case spelling of the input of a field
UpperInput(kind, v) ==
    IF ~v.set THEN v
    ELSE IF kind = "mac" THEN Some(Upper(v.v))
    ELSE Some([i \in 1..Len(v.v) |-> Upper(v.v[i])])

\* the field validator runs on the input: stored is what the model
\* stores, again what validating the stored value gives, upper what the
\* upper-case spelling of the input gives
ValidateField(kind) ==
    /\ built.model = kind
    /\ ~built.done
    /\ LET r == FieldValidator(built.field, built.input) IN
       built' = [built EXCEPT
                    !.done = TRUE,
                    !.stored = r,
                    !.again = IF r.ok THEN FieldValidator(built.field, r.value) ELSE r,
                    !.upper = FieldValidator(built.field, UpperInput(kind, built.input))]
    /\ UNCHANGED <<session, inWith, pc, req, attempt, last_error, calls, sleeps, trace,
                   outcome, exitRec>>

ValidateMacField == ValidateField("mac")
ValidateMacListField == ValidateField("mac_list")

NextValidators ==
    \/ ValidateMacField
    \/ ValidateMacListField

SpecValidators == InitValidators /\ [][NextValidators]_vars

\* the construction of a model of the given class is over
Built(model) == built.model = model /\ built.done

\* the request in req is over
Done == pc \in {"idle", "raised"} /\ outcome.tag # "none"

\* ----------------------------------------------------------- properties
\* the last thing the transport did for the current request
LastT == trace[Len(trace)]

\* the transport answered the current request with a response
Answered == Len(trace) > 0 /\ ~LastT.raises

\* every failure of the transport was a connection error or a timeout
TransientOnly ==
    \A i \in 1..Len(trace) :
        trace[i].raises => trace[i].cls \in {"ConnectionError", "Timeout"}

\* the error kind the status table gives a failing status
StatusClass(status) ==
    CASE status = 401 -> "AuthenticationError"
      [] status = 403 -> "PermissionError"
      [] status = 404 -> "NotFoundError"
      [] OTHER -> "APIError"

Min(a, b) == IF a < b THEN a ELSE b

\* C1: a request whose transport fails transiently on exactly its first N
\* calls and then answers successfully returns the successful result when
\* N < max_retries and raises the retries-exhausted APIError when
\* N >= max_retries.
C1_RetryBound ==
    (Done /\ req.sess # "none" /\ TransientOnly) =>
        /\ req.failN < max_retries =>
              /\ Answered
              /\ (Ok(LastT.resp) /\ ParseResponse(req.model, LastT.resp).tag = "return") =>
                    /\ outcome.tag = "return"
                    /\ outcome = ParseResponse(req.model, LastT.resp)
        /\ req.failN >= max_retries =>
              /\ ~Answered
              /\ outcome.tag = "raise"
              /\ outcome.exc.cls = "APIError"
              /\ outcome.exc.msg[1] = "Request failed after "

\* the test's case: two connection failures, then the answer is returned
C1_Witness ==
    /\ Done /\ req.sess # "none" /\ TransientOnly
    /\ req.failN = 2
    /\ Len(trace) = 3
    /\ outcome.tag = "return"
    /\ outcome.raw

\* C2: for a transport that fails transiently exactly N times and then
\* succeeds, the number of HTTP calls of the request is
\* min(N, max_retries) + 1.
C2_CallCount ==
    (/\ Done /\ req.sess # "none" /\ TransientOnly
     /\ req.failN < max_retries => (Answered /\ Ok(LastT.resp)))
    => calls = Min(req.failN, max_retries) + 1

\* C3: a request during which the transport raises its SSL error makes
\* exactly one HTTP call, sleeps never and raises an API error.
C3_TlsNotRetried ==
    (Done /\ \E i \in 1..Len(trace) : trace[i].cls = "SSLError") =>
        /\ calls = 1
        /\ sleeps = <<>>
        /\ outcome.tag = "raise"
        /\ IsInstance(outcome.exc.cls, "APIError")

ServerMessage(b) ==
    IF b.fmt = "object" /\ b.metaMsg # NoField THEN b.metaMsg
    ELSE IF b.fmt = "object" /\ b.message # NoField THEN b.message
    ELSE IF b.fmt = "text" THEN b.text
    ELSE NoField

\* C5: a failing response raises, whatever the shape of its body, the
\* error kind of its status (401 AuthenticationError, 403 PermissionError,
\* 404 NotFoundError, otherwise APIError) with the server's message text
\* in the error's message when the body has one.
C5_StatusMapping ==
    (Done /\ Answered /\ ~Ok(LastT.resp)) =>
        /\ outcome.tag = "raise"
        /\ outcome.exc.cls = StatusClass(LastT.resp.status)
        /\ ServerMessage(LastT.resp.body) # NoField =>
              Contains(outcome.exc.msg, ServerMessage(LastT.resp.body))

\* C6: a request made after close() issues no HTTP call and raises.
C6_ClosedClientFails ==
    (req.method # "none" /\ req.sess = "closed") =>
        /\ calls = 0
        /\ Done => outcome.tag = "raise"

\* C7: a request made after a with block has exited raises a RuntimeError
\* saying that the session is closed, and issues no HTTP call.
C7_AfterWithRuntimeError ==
    (req.method # "none" /\ req.sess = "none") =>
        /\ calls = 0
        /\ Done =>
              /\ outcome.tag = "raise"
              /\ IsInstance(outcome.exc.cls, "RuntimeError")
              /\ Contains(outcome.exc.msg, "Session is closed")

\* C8: when control has left a with block, normally or through an
\* exception raised inside it, the session has been closed and the
\* exception raised inside the block reaches the caller unchanged.
C8_ExitClosesAndPropagates ==
    exitRec.left =>
        /\ exitRec.session \in {"closed", "none"}
        /\ session = exitRec.session
        /\ exitRec.propagated = exitRec.raised

\* the error of a request left the block of a client whose session was open
C8_Witness ==
    /\ exitRec.left
    /\ exitRec.raised # NoExc
    /\ outcome.tag = "raise"
    /\ exitRec.propagated = outcome.exc
    /\ req.sess = "open"
    /\ session = "none"

\* C9: when every attempt of a request fails with a transport error, the
\* request raises APIError itself, whose message holds the text of the
\* exception of the last attempt and of no earlier attempt.
C9_LastErrorWrapped ==
    (Done /\ Len(trace) > 0 /\ \A i \in 1..Len(trace) : trace[i].raises) =>
        /\ outcome.tag = "raise"
        /\ outcome.exc.cls = "APIError"
        /\ Contains(outcome.exc.msg, LastT.text)
        /\ \A i \in 1..(Len(trace) - 1) : ~Contains(outcome.exc.msg, trace[i].text)

\* three failed attempts, the third one's text in the APIError
C9_Witness ==
    /\ Done
    /\ Len(trace) = max_retries
    /\ \A i \in 1..Len(trace) : trace[i].raises
    /\ outcome.exc.cls = "APIError"
    /\ Contains(outcome.exc.msg, "err3")

\* C10: a successful request with a response_model whose data is an array
\* of n >= 1 elements returns a list of n instances, the i-th built from
\* the i-th element.
C10_ListOfModels ==
    (/\ Done /\ Answered /\ Ok(LastT.resp)
     /\ req.model # "none"
     /\ LastT.resp.body.fmt = "object"
     /\ LastT.resp.body.dataKind = "list"
     /\ Len(LastT.resp.body.items) >= 1
     /\ \A i \in 1..Len(LastT.resp.body.items) : LastT.resp.body.items[i].valid)
    => /\ outcome.tag = "return"
       /\ outcome.isList
       /\ Len(outcome.items) = Len(LastT.resp.body.items)
       /\ \A i \in 1..Len(outcome.items) :
             outcome.items[i] = Instance("data", LastT.resp.body.items[i].id)

\* the body of the answer of the current request
LastBody == LastT.resp.body

\* the request was answered with a successful response whose body is an
\* envelope with the given kind of data
AnsweredWithData(kind) ==
    /\ Done /\ Answered /\ Ok(LastT.resp)
    /\ LastBody.fmt = "object"
    /\ LastBody.dataKind = kind

\* C11: a successful request with a response_model whose data is a single
\* non-empty object returns one instance built from that object's fields.
C11_ObjectData ==
    (/\ AnsweredWithData("object")
     /\ req.api = "request"
     /\ req.model # "none"
     /\ Len(LastBody.items) = 1
     /\ LastBody.items[1].valid)
    => outcome = Return(FALSE, <<Instance("data", LastBody.items[1].id)>>, FALSE)

\* C12: when the data of a successful response does not conform to the
\* response_model (an element of the data array, or the data object, is
\* invalid), the request raises ResponseValidationError carrying the
\* validation error, and no HTTP call and no sleep follows the response
\* (one call when the response answers the first call).
C12_ValidationWrapped ==
    (/\ Done /\ Answered /\ Ok(LastT.resp)
     /\ req.api = "request"
     /\ req.model # "none"
     /\ LastBody.fmt = "object"
     /\ \E i \in 1..Len(LastBody.items) : ~LastBody.items[i].valid)
    => /\ outcome.tag = "raise"
       /\ outcome.exc.cls = "ResponseValidationError"
       /\ \E i \in 1..Len(LastBody.items) :
             /\ ~LastBody.items[i].valid
             /\ outcome.exc.msg =
                   <<"Response validation failed: ">> \o Construct(LastBody.items[i]).exc.msg
       /\ calls = req.failN + 1
       /\ Len(sleeps) = req.failN
       /\ req.failN = 0 => (calls = 1 /\ sleeps = <<>>)

\* C13: a list method whose response holds an element that fails
\* validation raises ResponseValidationError (an APIError) wrapping the
\* validation error.
C13_ListValidationWrapped ==
    (/\ AnsweredWithData("list")
     /\ req.api = "list"
     /\ \E i \in 1..Len(LastBody.items) : ~LastBody.items[i].valid)
    => /\ outcome.tag = "raise"
       /\ IsInstance(outcome.exc.cls, "ResponseValidationError")
       /\ IsInstance(outcome.exc.cls, "APIError")

\* C14: a list method returns, for a data array of n valid elements, the
\* list of the n instances in the order of data, and the empty list,
\* raising nothing, when data is missing or is not an array.
C14_ListResult ==
    (Done /\ Answered /\ Ok(LastT.resp) /\ req.api = "list"
     /\ LastBody.fmt \in {"object", "array"})
    => /\ (/\ LastBody.fmt = "object" /\ LastBody.dataKind = "list"
           /\ \A i \in 1..Len(LastBody.items) : LastBody.items[i].valid)
          => /\ outcome.tag = "return"
             /\ outcome.isList
             /\ Len(outcome.items) = Len(LastBody.items)
             /\ \A i \in 1..Len(LastBody.items) :
                   outcome.items[i] = Instance("data", LastBody.items[i].id)
       /\ (LastBody.fmt = "array" \/ LastBody.dataKind # "list")
          => outcome = Return(TRUE, <<>>, FALSE)

\* two valid elements come back as two instances, second element second
C14_Witness ==
    /\ AnsweredWithData("list")
    /\ req.api = "list"
    /\ Len(LastBody.items) = 2
    /\ LastBody.items[1].valid /\ LastBody.items[2].valid
    /\ LastBody.items[1].id = 2 /\ LastBody.items[2].id = 1
    /\ outcome.tag = "return"
    /\ Len(outcome.items) = 2
    /\ outcome.items[2] = Instance("data", 1)

Band(radio) ==
    CASE radio = "ng" -> 1..14
      [] radio = "na" -> 36..165
      [] radio = "6e" -> 1..233

\* C17: WifiStats accepts a (radio, channel) pair exactly when the channel
\* is in the band of the radio: with the other fields valid, a channel in
\* the band is accepted and a channel outside it is rejected.
C17_ChannelBand ==
    (Built("WifiStats") /\ built.input.radio.v \in RadioTypes) =>
        /\ built.input.channel.v \notin Band(built.input.radio.v) => ~built.result.ok
        /\ built.input.channel.v \in Band(built.input.radio.v) =>
              built.result.errors \cap {"channel", "radio", "__model__"} = {}
        /\ (/\ built.input.channel.v \in Band(built.input.radio.v)
            /\ built.result.errors \cap {"signal", "noise", "channel_width"} = {})
           => built.result.ok

\* channel 15 on the 2.4 GHz radio is rejected by the model validator
C17_Witness ==
    /\ Built("WifiStats")
    /\ built.input.radio = Some("ng")
    /\ built.input.channel = Some(15)
    /\ ~built.result.ok
    /\ built.result.errors = {"__model__"}

\* C18: the signal and the noise of every constructed WifiStats are
\* negative: 0 and positive values are rejected.
C18_NegativeDbm ==
    (Built("WifiStats") /\ built.result.ok) =>
        /\ built.input.signal.v < 0
        /\ built.input.noise.v < 0

\* C19: WifiStats accepts channel_width exactly when it is absent or one
\* of 20, 40, 80, 160, 320.
C19_ChannelWidth ==
    Built("WifiStats") =>
        ("channel_width" \notin built.result.errors
            <=> (~built.input.channel_width.set
                 \/ built.input.channel_width.v \in {20, 40, 80, 160, 320}))

\* C20: every constructed PortStats has port_idx >= 1 and, when present,
\* negative sfp_rxpower and sfp_txpower: 0.0 and positive are rejected.
C20_SfpPower ==
    (Built("PortStats") /\ built.result.ok) =>
        /\ built.input.port_idx.v >= 1
        /\ built.input.sfp_rxpower.set => built.input.sfp_rxpower.v < 0
        /\ built.input.sfp_txpower.set => built.input.sfp_txpower.v < 0

\* the lower-cased form of the input of a field
LowerInput(kind, v) ==
    IF ~v.set THEN v
    ELSE IF kind = "mac" THEN Some(Lower(v.v))
    ELSE Some([i \in 1..Len(v.v) |-> Lower(v.v[i])])

\* C21: every MAC value a model stores is the lower-cased form of the
\* input; the upper-case spelling of the input gives the same stored
\* value, and validating the stored value returns it unchanged.
C21_MacLowerCased ==
    (built.model \in {"mac", "mac_list"} /\ built.done /\ built.stored.ok) =>
        /\ built.stored.value = LowerInput(built.model, built.input)
        /\ built.upper = built.stored
        /\ built.again = built.stored

\* C22: every constructed VLANConfiguration has 1 <= vlan_id <= 4094 and
\* no port in both tagged_ports and untagged_ports; a port in both lists
\* is rejected with a message naming the ports in both, and disjoint,
\* absent or empty lists are not rejected by this rule.
C22_VlanPorts ==
    Built("VLANConfiguration") =>
        LET tagged == built.input.tagged_ports
            untagged == built.input.untagged_ports
            both == SetOf(tagged.v) \cap SetOf(untagged.v)
        IN  /\ built.result.ok =>
                  /\ 1 <= built.result.data.vlan_id.v
                  /\ built.result.data.vlan_id.v <= 4094
                  /\ both = {}
            /\ both # {} =>
                  /\ ~built.result.ok
                  /\ built.input.vlan_id.v \in 1..4094 =>
                        /\ built.result.errors = {"__model__"}
                        /\ built.result.msg =
                              <<"Ports ", both, " cannot be both tagged and untagged">>
            /\ both = {} => "__model__" \notin built.result.errors

\* tagged [1, 2] and untagged [2, 3] are rejected naming port 2
C22_Witness ==
    /\ Built("VLANConfiguration")
    /\ built.input.tagged_ports = Some(<<1, 2>>)
    /\ built.input.untagged_ports = Some(<<2, 3>>)
    /\ built.input.vlan_id = Some(1)
    /\ ~built.result.ok
    /\ built.result.msg[2] = {2}

\* C23 as stated: every constructed DHCPConfiguration whose mode is server
\* has both start and end of the range set, one in server mode with start
\* or end missing being rejected.
C23_ServerHasRange ==
    (Built("DHCPConfiguration") /\ built.input.mode.v = "server") =>
        /\ built.result.ok =>
              built.result.data.start.set /\ built.result.data.end.set
        /\ (~built.input.start.set \/ ~built.input.end.set) => ~built.result.ok

\* C23 as amended: every constructed DHCPConfiguration whose mode is server
\* and whose enabled flag is true has both start and end of the range set,
\* one with start or end missing being rejected; with enabled false the
\* range is not required.
C23_EnabledServerHasRange ==
    (Built("DHCPConfiguration") /\ built.input.mode.v = "server") =>
        /\ (built.result.ok /\ built.result.data.enabled.v) =>
              built.result.data.start.set /\ built.result.data.end.set
        /\ (built.input.enabled.v /\ (~built.input.start.set \/ ~built.input.end.set))
           => ~built.result.ok
        /\ (~built.input.enabled.v /\ ~built.input.start.set /\ ~built.input.end.set)
           => built.result.ok

\* an enabled server with a start and no end is rejected by the range rule
C23_Witness ==
    /\ Built("DHCPConfiguration")
    /\ built.input.mode = Some("server")
    /\ built.input.enabled = Some(TRUE)
    /\ built.input.start = Some("192.168.1.100")
    /\ ~built.input.end.set
    /\ ~built.result.ok
    /\ built.result.errors = {"__model__"}

\* C24: every constructed SystemHealth with both last_check and
\* next_check has next_check > last_check: equal and smaller next_check
\* are rejected; with either timestamp absent the rule does not apply.
C24_NextAfterLast ==
    Built("SystemHealth") =>
        IF built.input.last_check.set /\ built.input.next_check.set
        THEN /\ built.result.ok <=> built.input.next_check.v > built.input.last_check.v
             /\ built.result.ok =>
                   built.result.data.next_check.v > built.result.data.last_check.v
        ELSE built.result.ok

\* next_check equal to last_check is rejected
C24_Witness ==
    /\ Built("SystemHealth")
    /\ built.input.last_check = Some(2)
    /\ built.input.next_check = Some(2)
    /\ ~built.result.ok
    /\ built.result.errors = {"__model__"}

\* C25: validate_mac_list, and the mac_list field of a model that uses
\* ValidationMixin, raise when an element of the list does not match the
\* MAC pattern and accept a list only if every element matches.
C25_MacListRejected ==
    (/\ built.model = "mac_list" /\ built.done /\ built.input.set
     /\ built.field \in {"validate_mac_list", "ValidationMixin.mac_list"})
    => (built.stored.ok <=> \A i \in 1..Len(built.input.v) : MatchMac(built.input.v[i]))

\* the message a failing response should carry: meta.msg, else the
\* top-level message, else the raw text of the response
ChosenMessage(b) ==
    IF b.fmt \in {"object", "array"} /\ b.metaMsg # NoField THEN b.metaMsg
    ELSE IF b.fmt \in {"object", "array"} /\ b.message # NoField THEN b.message
    ELSE b.text

\* C26: the message of the error of a failing response is meta.msg when
\* the JSON body has it, otherwise the top-level message when present,
\* otherwise (no JSON, or JSON with neither field) the raw response text.
C26_MessageOrder ==
    (Done /\ Answered /\ ~Ok(LastT.resp) /\ LastT.resp.body.text # "") =>
        /\ outcome.tag = "raise"
        /\ outcome.exc.msg[Len(outcome.exc.msg)] = ChosenMessage(LastT.resp.body)

C28_EmptyData ==
    (/\ AnsweredWithData("list")
     /\ req.api = "request"
     /\ req.model # "none"
     /\ LastBody.items = <<>>)
    => outcome = Return(FALSE, <<Instance("default", 0)>>, FALSE)

\* C29: in the client of src/clients, a request whose transport raises a
\* request exception on its first N calls is made again up to max_retries
\* more times, with a sleep of backoff_factor * 2^attempt before each new
\* attempt, and raises only when the last attempt has failed too.
C29_LegacyRetry ==
    (Done /\ req.api = "legacy" /\ req.failN > 0) =>
        /\ calls = Min(req.failN, legacy_max_retries) + 1
        /\ Len(sleeps) = calls - 1
        /\ \A k \in 1..Len(sleeps) : sleeps[k] = backoff_factor * (2 ^ (k - 1))
        /\ (outcome.tag = "raise" /\ LastT.raises) => calls = legacy_max_retries + 1

\* C30: once the exit of a with block has cleared the session, no
\* operation (a request, close(), entering or leaving a with block) gives
\* the client a session again, and close() and a second exit change
\* nothing and raise nothing.
C30_ClosedAbsorbing ==
    [][session = "none" =>
          /\ session' = "none"
          /\ exitRec'.left => exitRec'.propagated = exitRec'.raised]_vars

\* a request was made after the first exit and a second with block was left
C30_Witness ==
    /\ session = "none"
    /\ req.sess = "none"
    /\ outcome.tag = "raise"
    /\ exitRec.left
    /\ exitRec.session = "none"

====
